---- MODULE Spec2Model ----
(***************************************************************************)
(* TaskHandler client: the four screen components (Login, Dashboard,       *)
(* BoardView, Inbox), their useState cells, their async handlers and the   *)
(* REST requests they issue.                                               *)
(*                                                                         *)
(* One page is mounted at a time (page).  ui holds the useState cells of   *)
(* the mounted component under the names the source gives them.  calls     *)
(* holds one record per handler invocation: the values its closure         *)
(* captured, the requests it issued, the toasts it showed and the await    *)
(* it is suspended at (pc).  When an invocation ends, the bodies and the   *)
(* answers of its requests are dropped from its record.  srv is the        *)
(* backend's data.  A handler runs from one await to the next as one       *)
(* action (single event loop).                                             *)
(***************************************************************************)
EXTENDS Integers, Sequences, FiniteSets, TLC

VARIABLES page, ui, srv, calls, onLoginCalls

vars == <<page, ui, srv, calls, onLoginCalls>>

\* Bound on the handler invocations the user triggers on one page.
MaxCalls == 2
\* Bounds on the Inbox page: the extractions and commits the user triggers,
\* and the tasks one extraction returns.
MaxInboxCalls == 3
MaxTasks == 2

(***************************************************************************)
(* Strings the user types: sequences of characters, so that trim() is      *)
(* computed and not assumed.                                               *)
(***************************************************************************)
Texts == { <<>>, <<" ">>, <<" ", "a">> }
Descriptions == { <<>>, <<"a">> }

RECURSIVE trimStart(_)
trimStart(s) == IF s # <<>> /\ Head(s) = " " THEN trimStart(Tail(s)) ELSE s

RECURSIVE trimEnd(_)
trimEnd(s) ==
  IF s # <<>> /\ s[Len(s)] = " " THEN trimEnd(SubSeq(s, 1, Len(s) - 1)) ELSE s

trim(s) == trimEnd(trimStart(s))

\* JavaScript truthiness of a string: the empty string is falsy.
truthy(s) == s # <<>>

(***************************************************************************)
(* Toasts and requests of an invocation.                                   *)
(***************************************************************************)
toast_error(msg) == [kind |-> "error", msg |-> msg]
toast_success(msg) == [kind |-> "success", msg |-> msg]

Errors(c) == SelectSeq(c.toasts, LAMBDA t : t.kind = "error")
Successes(c) == SelectSeq(c.toasts, LAMBDA t : t.kind = "success")

\* A URL: the path pattern and the identifier substituted into it (0: none).
Url(path, id) == [path |-> path, id |-> id]
Req(method, url, body) == [method |-> method, url |-> url, body |-> body]

Posts(c) == SelectSeq(c.reqs, LAMBDA r : r.method = "POST")
Gets(c) == SelectSeq(c.reqs, LAMBDA r : r.method = "GET")

\* Promise.all: rejected as soon as one request fails, fulfilled when all succeeded.
joinRejected(res) == \E k \in DOMAIN res : res[k].st = "fail"
joinFulfilled(res) == \A k \in DOMAIN res : res[k].st = "ok"

\* null / undefined
null == [null |-> TRUE]

\* by: 0 for an invocation the user triggers, -1 for the mount effect, and
\* the index of the invocation that called it otherwise.
UserCalls == { i \in DOMAIN calls : calls[i].by = 0 }
CanCall == Cardinality(UserCalls) < MaxCalls

AllDone == \A i \in DOMAIN calls : calls[i].pc = "done"

\* The record of an invocation that ended with outcome st and showed the
\* toasts shown: its requests stay without their bodies and answers.
Ended(c, res, shown) ==
  [c EXCEPT !.pc = "done",
            !.reqs = [k \in DOMAIN @ |-> [@[k] EXCEPT !.body = null]],
            !.toasts = @ \o shown,
            !.res = res]

(***************************************************************************)
(* Login (SessionGate)                                                     *)
(***************************************************************************)
Emails == { <<>>, <<"a">> }
Passwords == { <<>>, <<"a">> }
Names == { <<>>, <<"a">> }
Tokens == { "t1", "t2" }
Users == { "u1", "u2" }
\* error.response?.data?.detail: absent (no response, or no detail) or a text
Details == { "none", "Invalid credentials" }

Login_useState ==
  [ isLogin |-> TRUE,
    formData |-> [email |-> <<>>, password |-> <<>>, name |-> <<>>],
    loading |-> FALSE ]

Login_setFormData ==
  /\ page = "Login"
  /\ \/ \E e \in Emails : ui' = [ui EXCEPT !.formData.email = e]
     \/ \E p \in Passwords : ui' = [ui EXCEPT !.formData.password = p]
     \/ \E n \in Names : ui.isLogin = FALSE /\ ui' = [ui EXCEPT !.formData.name = n]
  /\ UNCHANGED <<page, srv, calls, onLoginCalls>>

Login_setIsLogin ==
  /\ page = "Login"
  /\ ui' = [ui EXCEPT !.isLogin = ~ui.isLogin]
  /\ UNCHANGED <<page, srv, calls, onLoginCalls>>

\* The form's required fields: the browser submits only when they are filled.
Login_formValid ==
  /\ ui.formData.email # <<>>
  /\ ui.formData.password # <<>>
  /\ (ui.isLogin \/ ui.formData.name # <<>>)

Login_endpoint(isLogin) ==
  IF isLogin THEN Url("/auth/login", 0) ELSE Url("/auth/register", 0)

\* handleSubmit(): up to the await of the POST.  The submit button is
\* disabled while loading.
Login_handleSubmit ==
  /\ page = "Login"
  /\ CanCall
  /\ ~ui.loading
  /\ Login_formValid
  /\ ui' = [ui EXCEPT !.loading = TRUE]
  /\ calls' = Append(calls,
       [ op |-> "handleSubmit", by |-> 0, pc |-> "post",
         isLogin |-> ui.isLogin,
         reqs |-> << Req("POST", Login_endpoint(ui.isLogin), ui.formData) >>,
         toasts |-> <<>>,
         res |-> [st |-> "sent"] ])
  /\ UNCHANGED <<page, srv, onLoginCalls>>

\* A handler that reports the login twice.
Login_onLogin_twice(i, token, user) ==
  onLoginCalls \o << [call |-> i, token |-> token, user |-> user],
                     [call |-> i, token |-> token, user |-> user] >>

\* onLogin(response.data.token, response.data.user)
Login_onLogin(i, token, user) ==
  Append(onLoginCalls, [call |-> i, token |-> token, user |-> user])

Login_handleSubmit_then(i) ==
  /\ page = "Login"
  /\ calls[i].op = "handleSubmit" /\ calls[i].pc = "post"
  /\ \E token \in Tokens, user \in Users :
       /\ onLoginCalls' = Login_onLogin(i, token, user)
       /\ calls' = [calls EXCEPT ![i] =
            Ended(@, [st |-> "ok", token |-> token, user |-> user],
                  << toast_success(IF calls[i].isLogin THEN "Welcome back!"
                                   ELSE "Account created successfully!") >>)]
  /\ ui' = [ui EXCEPT !.loading = FALSE]
  /\ UNCHANGED <<page, srv>>

\* An error text that ignores the detail of the response.
Login_errorText_generic(detail) == "An error occurred"

\* error.response?.data?.detail || "An error occurred"
Login_errorText(detail) == IF detail # "none" THEN detail ELSE "An error occurred"

Login_handleSubmit_catch(i) ==
  /\ page = "Login"
  /\ calls[i].op = "handleSubmit" /\ calls[i].pc = "post"
  /\ \E detail \in Details :
       calls' = [calls EXCEPT ![i] =
         Ended(@, [st |-> "fail", detail |-> detail],
               << toast_error(Login_errorText(detail)) >>)]
  /\ ui' = [ui EXCEPT !.loading = FALSE]
  /\ UNCHANGED <<page, srv, onLoginCalls>>

NextLogin ==
  \/ Login_setFormData
  \/ Login_setIsLogin
  \/ Login_handleSubmit
  \/ \E i \in DOMAIN calls : Login_handleSubmit_then(i)
  \/ \E i \in DOMAIN calls : Login_handleSubmit_catch(i)

(***************************************************************************)
(* Backend data: the boards, lists and cards it stores, in creation order. *)
(***************************************************************************)
Board1 == [id |-> 1, title |-> <<" ", "a">>, description |-> <<>>]
Board2 == [id |-> 2, title |-> <<" ", "a">>, description |-> <<"a">>]
List3 == [id |-> 3, board_id |-> 1, title |-> <<" ", "a">>, position |-> 0]
Card4 ==
  [ id |-> 4, list_id |-> 3, board_id |-> 1, title |-> <<" ", "a">>,
    description |-> <<>>, position |-> 0 ]

srv0 == [ boards |-> <<>>, lists |-> <<>>, cards |-> <<>>, nextId |-> 1 ]

\* What the backend answers to GET /api/boards/{id}, /api/lists/{boardId} and
\* /api/cards/{boardId}.
srvBoard(id) == CHOOSE b \in { srv.boards[k] : k \in DOMAIN srv.boards } : b.id = id
srvLists(boardId) == SelectSeq(srv.lists, LAMBDA l : l.board_id = boardId)
srvCards(boardId) == SelectSeq(srv.cards, LAMBDA c : c.board_id = boardId)
srvHasCard(id) == \E k \in DOMAIN srv.cards : srv.cards[k].id = id

\* The card the backend stores for a card POST.
srvNewCard(body) ==
  [ id |-> srv.nextId, list_id |-> body.list_id, board_id |-> body.board_id,
    title |-> body.title, description |-> body.description,
    position |-> body.position ]

(***************************************************************************)
(* Dashboard (BoardList)                                                   *)
(***************************************************************************)
Dashboard_useState ==
  [ boards |-> <<>>,
    loading |-> TRUE,
    showNewBoard |-> FALSE,
    newBoardData |-> [title |-> <<>>, description |-> <<>>] ]

\* fetchBoards(): up to the await of the GET.
Dashboard_fetchBoards_call(by) ==
  [ op |-> "fetchBoards", by |-> by, pc |-> "get",
    reqs |-> << Req("GET", Url("/boards", 0), null) >>,
    toasts |-> <<>>,
    res |-> [st |-> "sent"] ]

\* useEffect(() => { fetchBoards(); }, [])
Dashboard_mount == << Dashboard_fetchBoards_call(-1) >>

\* The backend answers GET /api/boards, or the request fails.
Dashboard_getBoards(i) ==
  /\ page = "Dashboard"
  /\ calls[i].op = "fetchBoards" /\ calls[i].pc = "get" /\ calls[i].res.st = "sent"
  /\ \/ calls' = [calls EXCEPT ![i].res = [st |-> "ok", data |-> srv.boards]]
     \/ calls' = [calls EXCEPT ![i].res = [st |-> "fail"]]
  /\ UNCHANGED <<page, ui, srv, onLoginCalls>>

Dashboard_fetchBoards_then(i) ==
  [ui EXCEPT !.boards = calls[i].res.data, !.loading = FALSE]

\* A catch that empties the board list.
Dashboard_fetchBoards_catch_clears(i) == [ui EXCEPT !.boards = <<>>, !.loading = FALSE]

Dashboard_fetchBoards_catch(i) == [ui EXCEPT !.loading = FALSE]

\* fetchBoards(): from the GET's answer to the end.
Dashboard_fetchBoards_done(i) ==
  /\ page = "Dashboard"
  /\ calls[i].op = "fetchBoards" /\ calls[i].pc = "get" /\ calls[i].res.st # "sent"
  /\ IF calls[i].res.st = "ok"
     THEN /\ ui' = Dashboard_fetchBoards_then(i)
          /\ calls' = [calls EXCEPT ![i] = Ended(@, [st |-> "ok"], <<>>)]
     ELSE /\ ui' = Dashboard_fetchBoards_catch(i)
          /\ calls' = [calls EXCEPT ![i] =
               Ended(@, [st |-> "fail"], << toast_error("Failed to load boards") >>)]
  /\ UNCHANGED <<page, srv, onLoginCalls>>

\* The dialog trigger and onOpenChange.
Dashboard_setShowNewBoard ==
  /\ page = "Dashboard"
  /\ ui' = [ui EXCEPT !.showNewBoard = ~ui.showNewBoard]
  /\ UNCHANGED <<page, srv, calls, onLoginCalls>>

Dashboard_setNewBoardData ==
  /\ page = "Dashboard"
  /\ ui.showNewBoard
  /\ \/ \E t \in Texts : ui' = [ui EXCEPT !.newBoardData.title = t]
     \/ \E d \in Descriptions : ui' = [ui EXCEPT !.newBoardData.description = d]
  /\ UNCHANGED <<page, srv, calls, onLoginCalls>>

\* A title check without trim().
Dashboard_titleMissing_untrimmed(data) == ~truthy(data.title)

\* if (!newBoardData.title.trim())
Dashboard_titleMissing(data) == ~truthy(trim(data.title))

\* createBoard(): up to the await of the POST, or the early return.
Dashboard_createBoard ==
  /\ page = "Dashboard"
  /\ CanCall
  /\ ui.showNewBoard
  /\ IF Dashboard_titleMissing(ui.newBoardData)
     THEN calls' = Append(calls,
            [ op |-> "createBoard", by |-> 0, pc |-> "done",
              reqs |-> <<>>,
              toasts |-> << toast_error("Board title is required") >>,
              res |-> [st |-> "none"] ])
     ELSE calls' = Append(calls,
            [ op |-> "createBoard", by |-> 0, pc |-> "post",
              reqs |-> << Req("POST", Url("/boards", 0), ui.newBoardData) >>,
              toasts |-> <<>>,
              res |-> [st |-> "sent"] ])
  /\ UNCHANGED <<page, ui, srv, onLoginCalls>>

\* The backend stores the board and answers; createBoard() runs to its end.
Dashboard_createBoard_then(i) ==
  /\ page = "Dashboard"
  /\ calls[i].op = "createBoard" /\ calls[i].pc = "post"
  /\ srv' = [srv EXCEPT
       !.boards = Append(@, [ id |-> srv.nextId,
                              title |-> calls[i].reqs[1].body.title,
                              description |-> calls[i].reqs[1].body.description ]),
       !.nextId = @ + 1]
  /\ ui' = [ui EXCEPT !.showNewBoard = FALSE,
                      !.newBoardData = [title |-> <<>>, description |-> <<>>]]
  /\ calls' = Append([calls EXCEPT ![i] = Ended(@, [st |-> "ok"], << toast_success("Board created successfully!") >>)],
                     Dashboard_fetchBoards_call(i))
  /\ UNCHANGED <<page, onLoginCalls>>

\* A catch that closes the dialog and resets the form.
Dashboard_createBoard_catch_closes(i) ==
  /\ page = "Dashboard"
  /\ calls[i].op = "createBoard" /\ calls[i].pc = "post"
  /\ calls' = [calls EXCEPT ![i] =
       Ended(@, [st |-> "fail"], << toast_error("Failed to create board") >>)]
  /\ ui' = [ui EXCEPT !.showNewBoard = FALSE,
                      !.newBoardData = [title |-> <<>>, description |-> <<>>]]
  /\ UNCHANGED <<page, srv, onLoginCalls>>

Dashboard_createBoard_catch(i) ==
  /\ page = "Dashboard"
  /\ calls[i].op = "createBoard" /\ calls[i].pc = "post"
  /\ calls' = [calls EXCEPT ![i] = Ended(@, [st |-> "fail"], << toast_error("Failed to create board") >>)]
  /\ UNCHANGED <<page, ui, srv, onLoginCalls>>

NextDashboard ==
  \/ Dashboard_setShowNewBoard
  \/ Dashboard_setNewBoardData
  \/ Dashboard_createBoard
  \/ \E i \in DOMAIN calls : Dashboard_createBoard_then(i)
  \/ \E i \in DOMAIN calls : Dashboard_createBoard_catch(i)
  \/ \E i \in DOMAIN calls : Dashboard_getBoards(i)
  \/ \E i \in DOMAIN calls : Dashboard_fetchBoards_done(i)

(***************************************************************************)
(* BoardView (BoardDetail)                                                 *)
(***************************************************************************)
BoardIds == { 1, 2 }

\* boardId is the route parameter (useParams); listId 0 stands for "".
BoardView_useState(boardId) ==
  [ boardId |-> boardId,
    board |-> null,
    lists |-> <<>>,
    cards |-> <<>>,
    loading |-> TRUE,
    newListTitle |-> <<>>,
    selectedCard |-> null,
    showCardDialog |-> FALSE,
    newCardData |-> [title |-> <<>>, listId |-> 0],
    showNewCardDialog |-> FALSE ]

\* The three GETs fetchBoardData() issues, and their pending answers.
BoardView_fetchBoardData_reqs(boardId) ==
  << Req("GET", Url("/boards/{boardId}", boardId), null),
     Req("GET", Url("/lists/{boardId}", boardId), null),
     Req("GET", Url("/cards/{boardId}", boardId), null) >>

BoardView_fetchBoardData_pending ==
  [ board |-> [st |-> "sent"], lists |-> [st |-> "sent"], cards |-> [st |-> "sent"] ]

\* fetchBoardData() called on its own: up to the await of Promise.all.
BoardView_fetchBoardData_call(by, boardId) ==
  [ op |-> "fetchBoardData", by |-> by, pc |-> "fetch", boardId |-> boardId,
    reqs |-> BoardView_fetchBoardData_reqs(boardId),
    toasts |-> <<>>,
    res |-> BoardView_fetchBoardData_pending ]

\* useEffect(() => { fetchBoardData(); }, [boardId]) at mount.
BoardView_mount(boardId) == << BoardView_fetchBoardData_call(-1, boardId) >>

\* The route parameter changes: the effect runs fetchBoardData() again.
BoardView_setBoardId ==
  /\ page = "BoardView"
  /\ CanCall
  /\ \E b \in BoardIds \ { ui.boardId } :
       /\ ui' = [ui EXCEPT !.boardId = b]
       /\ calls' = Append(calls, BoardView_fetchBoardData_call(0, b))
  /\ UNCHANGED <<page, srv, onLoginCalls>>

\* What the backend answers to the three GETs of one fetchBoardData().
BoardView_answer(boardId) ==
  [ board |-> [st |-> "ok", data |-> srvBoard(boardId)],
    lists |-> [st |-> "ok", data |-> srvLists(boardId)],
    cards |-> [st |-> "ok", data |-> srvCards(boardId)] ]

\* The backend answers the GETs of one fetchBoardData(), or one of the three
\* requests fails instead.
BoardView_get(i) ==
  /\ page = "BoardView"
  /\ calls[i].pc = "fetch"
  /\ \A k \in DOMAIN calls[i].res : calls[i].res[k].st = "sent"
  /\ \E failed \in { {}, { "board" }, { "lists" }, { "cards" } } :
       calls' = [calls EXCEPT ![i].res =
         [ k \in { "board", "lists", "cards" } |->
             IF k \in failed THEN [st |-> "fail"]
             ELSE BoardView_answer(calls[i].boardId)[k] ]]
  /\ UNCHANGED <<page, ui, srv, onLoginCalls>>

BoardView_fetchBoardData_then(i) ==
  [ui EXCEPT !.board = calls[i].res.board.data,
             !.lists = calls[i].res.lists.data,
             !.cards = calls[i].res.cards.data,
             !.loading = FALSE]

\* A catch that applies the lists when their request succeeded.
BoardView_fetchBoardData_catch_partial(i) ==
  [ui EXCEPT !.lists = IF calls[i].res.lists.st = "ok"
                       THEN calls[i].res.lists.data ELSE @,
             !.loading = FALSE]

BoardView_fetchBoardData_catch(i) == [ui EXCEPT !.loading = FALSE]

\* What the handler that awaited fetchBoardData() does after it.
BoardView_afterFetch(op, u) ==
  IF op = "handleCreateCard"
  THEN [u EXCEPT !.showNewCardDialog = FALSE,
                 !.newCardData = [title |-> <<>>, listId |-> 0]]
  ELSE u

BoardView_afterFetch_toasts(op) ==
  CASE op = "handleCreateCard" -> << toast_success("Card created!") >>
    [] op = "updateCard" -> << toast_success("Card updated") >>
    [] OTHER -> <<>>

\* fetchBoardData(): from the settling of Promise.all to its end, and on to
\* the end of the handler that awaited it (handleCreateCard, updateCard).
BoardView_fetchBoardData_done(i) ==
  /\ page = "BoardView"
  /\ calls[i].pc = "fetch"
  /\ joinFulfilled(calls[i].res) \/ joinRejected(calls[i].res)
  /\ LET ok == joinFulfilled(calls[i].res)
         fetched == IF ok THEN BoardView_fetchBoardData_then(i)
                          ELSE BoardView_fetchBoardData_catch(i)
         shown == IF ok THEN <<>>
                  ELSE << toast_error("Failed to load board data") >>
     IN /\ ui' = BoardView_afterFetch(calls[i].op, fetched)
        /\ calls' = [calls EXCEPT ![i] =
             Ended(@, [st |-> IF ok THEN "ok" ELSE "fail"],
                   shown \o BoardView_afterFetch_toasts(calls[i].op))]
  /\ UNCHANGED <<page, srv, onLoginCalls>>

BoardView_setNewListTitle ==
  /\ page = "BoardView"
  /\ ~ui.loading
  /\ \E t \in Texts : ui' = [ui EXCEPT !.newListTitle = t]
  /\ UNCHANGED <<page, srv, calls, onLoginCalls>>

\* createList(): up to the await of the POST.  With a blank title it returns
\* at once and changes nothing.
BoardView_createList ==
  /\ page = "BoardView"
  /\ ~ui.loading
  /\ CanCall
  /\ truthy(trim(ui.newListTitle))
  /\ calls' = Append(calls,
       [ op |-> "createList", by |-> 0, pc |-> "post", boardId |-> ui.boardId,
         reqs |-> << Req("POST", Url("/boards/{boardId}/lists", ui.boardId),
                         [ title |-> ui.newListTitle,
                           board_id |-> ui.boardId,
                           position |-> Len(ui.lists) ]) >>,
         toasts |-> <<>>,
         res |-> [st |-> "sent"] ])
  /\ UNCHANGED <<page, ui, srv, onLoginCalls>>

\* The backend stores the list; createList() runs to its end and calls
\* fetchBoardData() without awaiting it.
BoardView_createList_then(i) ==
  /\ page = "BoardView"
  /\ calls[i].op = "createList" /\ calls[i].pc = "post"
  /\ LET body == calls[i].reqs[1].body IN
       srv' = [srv EXCEPT
         !.lists = Append(@, [ id |-> srv.nextId, board_id |-> body.board_id,
                               title |-> body.title, position |-> body.position ]),
         !.nextId = @ + 1]
  /\ ui' = [ui EXCEPT !.newListTitle = <<>>]
  /\ calls' = Append([calls EXCEPT ![i] = Ended(@, [st |-> "ok"], << toast_success("List created!") >>)],
                     BoardView_fetchBoardData_call(i, calls[i].boardId))
  /\ UNCHANGED <<page, onLoginCalls>>

BoardView_createList_catch(i) ==
  /\ page = "BoardView"
  /\ calls[i].op = "createList" /\ calls[i].pc = "post"
  /\ calls' = [calls EXCEPT ![i] = Ended(@, [st |-> "fail"], << toast_error("Failed to create list") >>)]
  /\ UNCHANGED <<page, ui, srv, onLoginCalls>>

\* createCard(listId): the "Add Card" button of a rendered list.
BoardView_createCard ==
  /\ page = "BoardView"
  /\ ~ui.loading
  /\ \E k \in DOMAIN ui.lists :
       ui' = [ui EXCEPT !.newCardData = [title |-> <<>>, listId |-> ui.lists[k].id],
                        !.showNewCardDialog = TRUE]
  /\ UNCHANGED <<page, srv, calls, onLoginCalls>>

BoardView_setNewCardData ==
  /\ page = "BoardView"
  /\ ~ui.loading
  /\ ui.showNewCardDialog
  /\ \E t \in Texts : ui' = [ui EXCEPT !.newCardData.title = t]
  /\ UNCHANGED <<page, srv, calls, onLoginCalls>>

\* onOpenChange of the new-card dialog: the user closes it.
BoardView_setShowNewCardDialog ==
  /\ page = "BoardView"
  /\ ~ui.loading
  /\ ui.showNewCardDialog
  /\ ui' = [ui EXCEPT !.showNewCardDialog = FALSE]
  /\ UNCHANGED <<page, srv, calls, onLoginCalls>>

\* A count over the cards of every list.
BoardView_listCards_unfiltered(cards, listId) == cards

\* cards.filter((c) => c.list_id === listId)
BoardView_listCards(cards, listId) ==
  SelectSeq(cards, LAMBDA c : c.list_id = listId)

\* A body whose position also counts the cards of the list whose creation is
\* still under way.
BoardView_handleCreateCard_body_counted ==
  [ title |-> ui.newCardData.title,
    description |-> <<>>,
    list_id |-> ui.newCardData.listId,
    board_id |-> ui.boardId,
    position |-> Len(BoardView_listCards(ui.cards, ui.newCardData.listId))
                   + Cardinality({ i \in DOMAIN calls :
                        /\ calls[i].op = "handleCreateCard"
                        /\ calls[i].pc \in { "post", "fetch" }
                        /\ calls[i].reqs[1].body.list_id = ui.newCardData.listId }) ]

\* The body handleCreateCard() posts.
BoardView_handleCreateCard_body ==
  [ title |-> ui.newCardData.title,
    description |-> <<>>,
    list_id |-> ui.newCardData.listId,
    board_id |-> ui.boardId,
    position |-> Len(BoardView_listCards(ui.cards, ui.newCardData.listId)) ]

\* handleCreateCard(): up to the await of the POST, or the early return.
BoardView_handleCreateCard ==
  /\ page = "BoardView"
  /\ ~ui.loading
  /\ ui.showNewCardDialog
  /\ CanCall
  /\ IF ~truthy(trim(ui.newCardData.title))
     THEN calls' = Append(calls,
            [ op |-> "handleCreateCard", by |-> 0, pc |-> "done",
              boardId |-> ui.boardId,
              reqs |-> <<>>,
              toasts |-> << toast_error("Card title is required") >>,
              res |-> [st |-> "none"] ])
     ELSE calls' = Append(calls,
            [ op |-> "handleCreateCard", by |-> 0, pc |-> "post",
              boardId |-> ui.boardId,
              reqs |-> << Req("POST",
                   Url("/lists/{listId}/cards", ui.newCardData.listId),
                   BoardView_handleCreateCard_body) >>,
              toasts |-> <<>>,
              res |-> [st |-> "sent"] ])
  /\ UNCHANGED <<page, ui, srv, onLoginCalls>>

\* The backend stores the card; handleCreateCard() goes on to await
\* fetchBoardData().
BoardView_handleCreateCard_then(i) ==
  /\ page = "BoardView"
  /\ calls[i].op = "handleCreateCard" /\ calls[i].pc = "post"
  /\ srv' = [srv EXCEPT !.cards = Append(@, srvNewCard(calls[i].reqs[1].body)),
                         !.nextId = @ + 1]
  /\ calls' = [calls EXCEPT
       ![i].pc = "fetch",
       ![i].reqs = @ \o BoardView_fetchBoardData_reqs(calls[i].boardId),
       ![i].res = BoardView_fetchBoardData_pending]
  /\ UNCHANGED <<page, ui, onLoginCalls>>

BoardView_handleCreateCard_catch(i) ==
  /\ page = "BoardView"
  /\ calls[i].op = "handleCreateCard" /\ calls[i].pc = "post"
  /\ calls' = [calls EXCEPT ![i] = Ended(@, [st |-> "fail"], << toast_error("Failed to create card") >>)]
  /\ UNCHANGED <<page, ui, srv, onLoginCalls>>

\* A rendered card is clicked: only cards of a rendered list are shown.
BoardView_selectCard ==
  /\ page = "BoardView"
  /\ ~ui.loading
  /\ \E k \in DOMAIN ui.cards :
       /\ \E l \in DOMAIN ui.lists : ui.lists[l].id = ui.cards[k].list_id
       /\ ui' = [ui EXCEPT !.selectedCard = ui.cards[k], !.showCardDialog = TRUE]
  /\ UNCHANGED <<page, srv, calls, onLoginCalls>>

\* The description textarea of the card dialog.
BoardView_setSelectedCard ==
  /\ page = "BoardView"
  /\ ~ui.loading
  /\ ui.showCardDialog /\ ui.selectedCard # null
  /\ \E d \in Descriptions : ui' = [ui EXCEPT !.selectedCard.description = d]
  /\ UNCHANGED <<page, srv, calls, onLoginCalls>>

\* onOpenChange of the card dialog: the user closes it.
BoardView_setShowCardDialog ==
  /\ page = "BoardView"
  /\ ~ui.loading
  /\ ui.showCardDialog
  /\ ui' = [ui EXCEPT !.showCardDialog = FALSE]
  /\ UNCHANGED <<page, srv, calls, onLoginCalls>>

\* A deleteCard() that does not ask.
BoardView_deleteCard_unasked(confirmed) == TRUE

\* if (!window.confirm("Delete this card?")) return;
BoardView_deleteCard_proceeds(confirmed) == confirmed

\* deleteCard(selectedCard.id): up to the await of the DELETE, or the early
\* return when the user declines the prompt.
BoardView_deleteCard ==
  /\ page = "BoardView"
  /\ ~ui.loading
  /\ ui.showCardDialog /\ ui.selectedCard # null
  /\ CanCall
  /\ \E confirmed \in BOOLEAN :
       IF BoardView_deleteCard_proceeds(confirmed)
       THEN calls' = Append(calls,
              [ op |-> "deleteCard", by |-> 0, pc |-> "delete",
                boardId |-> ui.boardId, confirmed |-> confirmed,
                reqs |-> << Req("DELETE",
                     Url("/cards/{cardId}", ui.selectedCard.id), null) >>,
                toasts |-> <<>>,
                res |-> [st |-> "sent"] ])
       ELSE calls' = Append(calls,
              [ op |-> "deleteCard", by |-> 0, pc |-> "done",
                boardId |-> ui.boardId, confirmed |-> confirmed,
                reqs |-> <<>>,
                toasts |-> <<>>,
                res |-> [st |-> "none"] ])
  /\ UNCHANGED <<page, ui, srv, onLoginCalls>>

\* The backend deletes the card; deleteCard() runs to its end and calls
\* fetchBoardData() without awaiting it.
BoardView_deleteCard_then(i) ==
  /\ page = "BoardView"
  /\ calls[i].op = "deleteCard" /\ calls[i].pc = "delete"
  /\ srvHasCard(calls[i].reqs[1].url.id)
  /\ srv' = [srv EXCEPT
       !.cards = SelectSeq(@, LAMBDA c : c.id # calls[i].reqs[1].url.id)]
  /\ ui' = [ui EXCEPT !.showCardDialog = FALSE]
  /\ calls' = Append([calls EXCEPT ![i] = Ended(@, [st |-> "ok"], << toast_success("Card deleted") >>)],
                     BoardView_fetchBoardData_call(i, calls[i].boardId))
  /\ UNCHANGED <<page, onLoginCalls>>

BoardView_deleteCard_catch(i) ==
  /\ page = "BoardView"
  /\ calls[i].op = "deleteCard" /\ calls[i].pc = "delete"
  /\ calls' = [calls EXCEPT ![i] = Ended(@, [st |-> "fail"], << toast_error("Failed to delete card") >>)]
  /\ UNCHANGED <<page, ui, srv, onLoginCalls>>

\* updateCard(selectedCard.id, {description}): up to the await of the PUT.
BoardView_updateCard ==
  /\ page = "BoardView"
  /\ ~ui.loading
  /\ ui.showCardDialog /\ ui.selectedCard # null
  /\ CanCall
  /\ calls' = Append(calls,
       [ op |-> "updateCard", by |-> 0, pc |-> "put", boardId |-> ui.boardId,
         reqs |-> << Req("PUT", Url("/cards/{cardId}", ui.selectedCard.id),
                         [description |-> ui.selectedCard.description]) >>,
         toasts |-> <<>>,
         res |-> [st |-> "sent"] ])
  /\ UNCHANGED <<page, ui, srv, onLoginCalls>>

\* The backend stores the update; updateCard() goes on to await
\* fetchBoardData().
BoardView_updateCard_then(i) ==
  /\ page = "BoardView"
  /\ calls[i].op = "updateCard" /\ calls[i].pc = "put"
  /\ srvHasCard(calls[i].reqs[1].url.id)
  /\ srv' = [srv EXCEPT !.cards =
       [ k \in DOMAIN @ |->
           IF @[k].id = calls[i].reqs[1].url.id
           THEN [@[k] EXCEPT !.description = calls[i].reqs[1].body.description]
           ELSE @[k] ]]
  /\ calls' = [calls EXCEPT
       ![i].pc = "fetch",
       ![i].reqs = @ \o BoardView_fetchBoardData_reqs(calls[i].boardId),
       ![i].res = BoardView_fetchBoardData_pending]
  /\ UNCHANGED <<page, ui, onLoginCalls>>

BoardView_updateCard_catch(i) ==
  /\ page = "BoardView"
  /\ calls[i].op = "updateCard" /\ calls[i].pc = "put"
  /\ calls' = [calls EXCEPT ![i] = Ended(@, [st |-> "fail"], << toast_error("Failed to update card") >>)]
  /\ UNCHANGED <<page, ui, srv, onLoginCalls>>

NextBoardView ==
  \/ BoardView_setBoardId
  \/ BoardView_setNewListTitle
  \/ BoardView_createList
  \/ BoardView_createCard
  \/ BoardView_setNewCardData
  \/ BoardView_setShowNewCardDialog
  \/ BoardView_handleCreateCard
  \/ BoardView_selectCard
  \/ BoardView_setSelectedCard
  \/ BoardView_setShowCardDialog
  \/ BoardView_deleteCard
  \/ BoardView_updateCard
  \/ \E i \in DOMAIN calls : BoardView_get(i)
  \/ \E i \in DOMAIN calls : BoardView_fetchBoardData_done(i)
  \/ \E i \in DOMAIN calls : BoardView_createList_then(i)
  \/ \E i \in DOMAIN calls : BoardView_createList_catch(i)
  \/ \E i \in DOMAIN calls : BoardView_handleCreateCard_then(i)
  \/ \E i \in DOMAIN calls : BoardView_handleCreateCard_catch(i)
  \/ \E i \in DOMAIN calls : BoardView_deleteCard_then(i)
  \/ \E i \in DOMAIN calls : BoardView_deleteCard_catch(i)
  \/ \E i \in DOMAIN calls : BoardView_updateCard_then(i)
  \/ \E i \in DOMAIN calls : BoardView_updateCard_catch(i)

(***************************************************************************)
(* Inbox (InboxView)                                                       *)
(***************************************************************************)
\* selectedBoard 0 stands for "".
Inbox_useState ==
  [ cards |-> <<>>,
    boards |-> <<>>,
    loading |-> TRUE,
    showAIConverter |-> FALSE,
    inputText |-> <<>>,
    extractedTasks |-> <<>>,
    selectedBoard |-> 0,
    extracting |-> FALSE ]

\* Tasks the extraction endpoint may return; a missing field is <<>>.
TaskPool ==
  << [title |-> <<"a">>, description |-> <<"a">>, priority |-> <<"high">>],
     [title |-> <<>>, description |-> <<>>, priority |-> <<>>],
     [title |-> <<"a">>, description |-> <<>>, priority |-> <<"low">>],
     [title |-> <<>>, description |-> <<"a">>, priority |-> <<>>] >>

TaskLists == { SubSeq(TaskPool, 1, n) : n \in 0..MaxTasks }

\* response.data.tasks: an array of tasks, or a value that is no array.
ExtractResponses ==
  { [isArray |-> TRUE, value |-> t] : t \in TaskLists }
    \cup { [isArray |-> FALSE, value |-> "none"] }

\* A stored task set without the tasks that lack a title.
Inbox_storedTasks_validated(data) ==
  IF data.isArray THEN SelectSeq(data.value, LAMBDA t : t.title # <<>>) ELSE <<>>

\* Array.isArray(response.data.tasks) ? response.data.tasks : []
Inbox_storedTasks(data) == IF data.isArray THEN data.value ELSE <<>>

Inbox_CanCall == Cardinality(UserCalls) < MaxInboxCalls

\* fetchData(): up to the await of Promise.all.
Inbox_fetchData_call(by) ==
  [ op |-> "fetchData", by |-> by, pc |-> "fetch",
    reqs |-> << Req("GET", Url("/inbox", 0), null),
                Req("GET", Url("/boards", 0), null) >>,
    toasts |-> <<>>,
    res |-> [ cards |-> [st |-> "sent"], boards |-> [st |-> "sent"] ] ]

\* useEffect(() => { fetchData(); }, [])
Inbox_mount == << Inbox_fetchData_call(-1) >>

\* What the backend answers to GET /api/inbox and GET /api/boards.
Inbox_answer ==
  [ cards |-> [st |-> "ok", data |-> srv.cards],
    boards |-> [st |-> "ok", data |-> srv.boards] ]

\* The backend answers the GETs of one fetchData(), or one of the two
\* requests fails instead.
Inbox_get(i) ==
  /\ page = "Inbox"
  /\ calls[i].op = "fetchData" /\ calls[i].pc = "fetch"
  /\ \A k \in DOMAIN calls[i].res : calls[i].res[k].st = "sent"
  /\ \E failed \in { {}, { "cards" }, { "boards" } } :
       calls' = [calls EXCEPT ![i].res =
         [ k \in { "cards", "boards" } |->
             IF k \in failed THEN [st |-> "fail"] ELSE Inbox_answer[k] ]]
  /\ UNCHANGED <<page, ui, srv, onLoginCalls>>

Inbox_fetchData_then(i) ==
  [ui EXCEPT !.cards = calls[i].res.cards.data,
             !.boards = calls[i].res.boards.data,
             !.loading = FALSE]

\* A catch that leaves the cards alone.
Inbox_fetchData_catch_keeps(i) == [ui EXCEPT !.loading = FALSE]

Inbox_fetchData_catch(i) == [ui EXCEPT !.cards = <<>>, !.loading = FALSE]

\* fetchData(): from the settling of Promise.all to the end.
Inbox_fetchData_done(i) ==
  /\ page = "Inbox"
  /\ calls[i].op = "fetchData" /\ calls[i].pc = "fetch"
  /\ joinFulfilled(calls[i].res) \/ joinRejected(calls[i].res)
  /\ IF joinFulfilled(calls[i].res)
     THEN /\ ui' = Inbox_fetchData_then(i)
          /\ calls' = [calls EXCEPT ![i] = Ended(@, [st |-> "ok"], <<>>)]
     ELSE /\ ui' = Inbox_fetchData_catch(i)
          /\ calls' = [calls EXCEPT ![i] =
               Ended(@, [st |-> "fail"], << toast_error("Failed to load inbox") >>)]
  /\ UNCHANGED <<page, srv, onLoginCalls>>

\* The dialog trigger and onOpenChange.
Inbox_setShowAIConverter ==
  /\ page = "Inbox"
  /\ ui' = [ui EXCEPT !.showAIConverter = ~ui.showAIConverter]
  /\ UNCHANGED <<page, srv, calls, onLoginCalls>>

Inbox_setInputText ==
  /\ page = "Inbox"
  /\ ui.showAIConverter
  /\ \E t \in Texts : ui' = [ui EXCEPT !.inputText = t]
  /\ UNCHANGED <<page, srv, calls, onLoginCalls>>

\* extractTasks(): up to the await of the POST, or the early return.  The
\* button is disabled while extracting.
Inbox_extractTasks ==
  /\ page = "Inbox"
  /\ ui.showAIConverter
  /\ ~ui.extracting
  /\ Inbox_CanCall
  /\ IF ~truthy(trim(ui.inputText))
     THEN /\ calls' = Append(calls,
               [ op |-> "extractTasks", by |-> 0, pc |-> "done",
                 reqs |-> <<>>,
                 toasts |-> << toast_error("Please enter some text") >>,
                 res |-> [st |-> "none"] ])
          /\ ui' = ui
     ELSE /\ calls' = Append(calls,
               [ op |-> "extractTasks", by |-> 0, pc |-> "post",
                 reqs |-> << Req("POST", Url("/ai/extract-tasks", 0),
                                 [text |-> ui.inputText]) >>,
                 toasts |-> <<>>,
                 res |-> [st |-> "sent"] ])
          /\ ui' = [ui EXCEPT !.extracting = TRUE]
  /\ UNCHANGED <<page, srv, onLoginCalls>>

\* The backend answers with {tasks}; a tasks value that is no array is stored
\* as [].
Inbox_extractTasks_then(i) ==
  /\ page = "Inbox"
  /\ calls[i].op = "extractTasks" /\ calls[i].pc = "post"
  /\ \E data \in ExtractResponses :
       /\ ui' = [ui EXCEPT !.extractedTasks = Inbox_storedTasks(data),
                           !.extracting = FALSE]
       /\ calls' = [calls EXCEPT ![i] =
            Ended(@, [st |-> "ok", tasks |-> data],
                  << toast_success(
                       "Tasks extracted! Review and select a board to add them.") >>)]
  /\ UNCHANGED <<page, srv, onLoginCalls>>

Inbox_extractTasks_catch(i) ==
  /\ page = "Inbox"
  /\ calls[i].op = "extractTasks" /\ calls[i].pc = "post"
  /\ ui' = [ui EXCEPT !.extracting = FALSE]
  /\ calls' = [calls EXCEPT ![i] =
       Ended(@, [st |-> "fail"], << toast_error("Failed to extract tasks") >>)]
  /\ UNCHANGED <<page, srv, onLoginCalls>>

\* The board Select: rendered with the extracted tasks, one item per board.
Inbox_setSelectedBoard ==
  /\ page = "Inbox"
  /\ ui.showAIConverter
  /\ Len(ui.extractedTasks) > 0
  /\ \E k \in DOMAIN ui.boards : ui' = [ui EXCEPT !.selectedBoard = ui.boards[k].id]
  /\ UNCHANGED <<page, srv, calls, onLoginCalls>>

\* a || b on texts
orElse(a, b) == IF truthy(a) THEN a ELSE b

\* The body of the card POST for task number k at the given position.
Inbox_cardBody(c, k, position) ==
  [ title |-> orElse(c.extractedTasks[k].title, << "Untitled Task" >>),
    description |-> orElse(c.extractedTasks[k].description, <<>>),
    list_id |-> c.firstList.id,
    board_id |-> c.selectedBoard,
    position |-> position,
    priority |-> orElse(c.extractedTasks[k].priority, << "medium" >>) ]

Inbox_cardPost(c, k, position) ==
  Req("POST", Url("/lists/{listId}/cards", c.firstList.id),
      Inbox_cardBody(c, k, position))

\* A start position that counts the cards of every list of the board.
Inbox_startPosition_unfiltered(existingCards, firstList) == Len(existingCards)

\* existingCards.filter((c) => c.list_id === firstList.id).length
Inbox_startPosition(existingCards, firstList) ==
  Len(SelectSeq(existingCards, LAMBDA c : c.list_id = firstList.id))

\* if (!firstList?.id || !selectedBoard) continue;
Inbox_skips(c) == c.firstList.id = 0 \/ c.selectedBoard = 0

toast_added(n) ==
  [kind |-> "success", msg |-> "task(s) added to board!", n |-> n]

\* addTasksToBoard(): up to the await of the lists GET, or the early return.
\* The button is rendered with the extracted tasks.
Inbox_addTasksToBoard ==
  /\ page = "Inbox"
  /\ ui.showAIConverter
  /\ Len(ui.extractedTasks) > 0
  /\ Inbox_CanCall
  /\ LET c == [ op |-> "addTasksToBoard", by |-> 0, pc |-> "lists",
                selectedBoard |-> ui.selectedBoard,
                extractedTasks |-> ui.extractedTasks,
                firstList |-> null, existingCards |-> null,
                position |-> 0, k |-> 0, failed |-> {}, answered |-> 0,
                reqs |-> <<>>, toasts |-> <<>>, res |-> [st |-> "sent"] ]
     IN IF ui.selectedBoard = 0
        THEN calls' = Append(calls,
               [c EXCEPT !.pc = "done", !.res = [st |-> "none"],
                         !.toasts = << toast_error("Please select a board") >>])
        ELSE calls' = Append(calls,
               [c EXCEPT !.reqs = << Req("GET",
                   Url("/lists/{boardId}", ui.selectedBoard), null) >>])
  /\ UNCHANGED <<page, ui, srv, onLoginCalls>>

\* The end of addTasksToBoard() after the loop.
Inbox_addTasksToBoard_end(i, c) ==
  /\ ui' = [ui EXCEPT !.showAIConverter = FALSE,
                      !.inputText = <<>>,
                      !.extractedTasks = <<>>,
                      !.selectedBoard = 0]
  /\ calls' = Append(
       [calls EXCEPT ![i] =
          [c EXCEPT !.pc = "done", !.res = [st |-> "ok"],
                    !.toasts = Append(@, toast_added(Len(c.extractedTasks)))]],
       Inbox_fetchData_call(i))

\* A catch that resets the dialog as the end of the commit does.
Inbox_addTasksToBoard_catch_resets(i) ==
  /\ ui' = [ui EXCEPT !.showAIConverter = FALSE,
                      !.inputText = <<>>,
                      !.extractedTasks = <<>>,
                      !.selectedBoard = 0]
  /\ calls' = [calls EXCEPT ![i] =
       [@ EXCEPT !.pc = "done", !.res = [st |-> "fail"],
                 !.answered = @ + 1,
                 !.toasts = Append(@, toast_error("Failed to add tasks"))]]

\* The catch of addTasksToBoard().
Inbox_addTasksToBoard_catch(i) ==
  /\ ui' = ui
  /\ calls' = [calls EXCEPT ![i] =
       [@ EXCEPT !.pc = "done", !.res = [st |-> "fail"],
                 !.answered = @ + 1,
                 !.toasts = Append(@, toast_error("Failed to add tasks"))]]

\* A loop that issues the POSTs of all tasks from number k on at once.
Inbox_addTasksToBoard_loop_parallel(i, c, k) ==
  IF k > Len(c.extractedTasks)
  THEN Inbox_addTasksToBoard_end(i, c)
  ELSE /\ ui' = ui
       /\ calls' = [calls EXCEPT ![i] =
            [c EXCEPT !.pc = "post", !.k = Len(c.extractedTasks),
                      !.position = c.position + (Len(c.extractedTasks) - k + 1),
                      !.reqs = @ \o [ n \in 1..(Len(c.extractedTasks) - k + 1) |->
                                 Inbox_cardPost(c, k + n - 1, c.position + n - 1) ]]]

\* The loop from task number k on, up to the await of its POST: tasks are
\* skipped while the guard holds, and the loop ends after the last one.
RECURSIVE Inbox_addTasksToBoard_loop(_, _, _)
Inbox_addTasksToBoard_loop(i, c, k) ==
  IF k > Len(c.extractedTasks)
  THEN Inbox_addTasksToBoard_end(i, c)
  ELSE IF Inbox_skips(c)
  THEN Inbox_addTasksToBoard_loop(i, c, k + 1)
  ELSE /\ ui' = ui
       /\ calls' = [calls EXCEPT ![i] =
            [c EXCEPT !.pc = "post", !.k = k,
                      !.position = c.position + 1,
                      !.reqs = Append(@, Inbox_cardPost(c, k, c.position))]]

\* A zero-lists branch that shows its toast and does not return: the (empty)
\* first list is never read, the loop is skipped and the end is reached.
Inbox_addTasksToBoard_noLists_goesOn(i) ==
  Inbox_addTasksToBoard_end(i,
    [calls[i] EXCEPT !.res = [st |-> "nolists"],
                     !.answered = @ + 1,
                     !.toasts = Append(@, toast_error(
                       "This board has no lists. Create a list first."))])

\* if (!Array.isArray(lists) || lists.length === 0) { toast.error(...); return; }
Inbox_addTasksToBoard_noLists(i) ==
  /\ ui' = ui
  /\ calls' = [calls EXCEPT ![i] =
       [@ EXCEPT !.pc = "done", !.res = [st |-> "nolists"],
                 !.answered = @ + 1,
                 !.toasts = Append(@, toast_error(
                   "This board has no lists. Create a list first."))]]

\* The lists GET is answered (or fails); addTasksToBoard() goes on to the
\* await of the cards GET, or ends.
Inbox_addTasksToBoard_lists(i) ==
  /\ page = "Inbox"
  /\ calls[i].op = "addTasksToBoard" /\ calls[i].pc = "lists"
  /\ \/ Inbox_addTasksToBoard_catch(i)
     \/ LET lists == srvLists(calls[i].selectedBoard) IN
          IF Len(lists) = 0
          THEN Inbox_addTasksToBoard_noLists(i)
          ELSE /\ ui' = ui
               /\ calls' = [calls EXCEPT ![i] =
                    [@ EXCEPT !.pc = "cards", !.firstList = lists[1],
                              !.answered = @ + 1,
                              !.reqs = Append(@, Req("GET",
                                Url("/cards/{boardId}", calls[i].selectedBoard),
                                null))]]
  /\ UNCHANGED <<page, srv, onLoginCalls>>

\* The cards GET is answered (or fails); addTasksToBoard() computes the
\* starting position and enters the loop.
Inbox_addTasksToBoard_cards(i) ==
  /\ page = "Inbox"
  /\ calls[i].op = "addTasksToBoard" /\ calls[i].pc = "cards"
  /\ \/ Inbox_addTasksToBoard_catch(i)
     \/ LET existingCards == srvCards(calls[i].selectedBoard)
            c == [calls[i] EXCEPT
                    !.existingCards = existingCards,
                    !.answered = @ + 1,
                    !.position = Inbox_startPosition(existingCards, calls[i].firstList)]
        IN Inbox_addTasksToBoard_loop(i, c, 1)
  /\ UNCHANGED <<page, srv, onLoginCalls>>

\* A failed card POST that reaches the outer catch.
Inbox_addTasksToBoard_postFailed_aborts(i) ==
  Inbox_addTasksToBoard_catch(i)

\* catch (err) { console.error("Failed to add task:", task, err); }
Inbox_addTasksToBoard_postFailed(i) ==
  Inbox_addTasksToBoard_loop(i,
    [calls[i] EXCEPT !.failed = @ \cup { calls[i].k }, !.answered = @ + 1],
    calls[i].k + 1)

\* The POST of task number k is answered: the backend stores the card, or the
\* request fails and the failure is only logged; the loop goes on.
Inbox_addTasksToBoard_post(i) ==
  /\ page = "Inbox"
  /\ calls[i].op = "addTasksToBoard" /\ calls[i].pc = "post"
  /\ \/ /\ srv' = [srv EXCEPT
             !.cards = Append(@, srvNewCard(calls[i].reqs[Len(calls[i].reqs)].body)),
             !.nextId = @ + 1]
        /\ Inbox_addTasksToBoard_loop(i, [calls[i] EXCEPT !.answered = @ + 1],
                                      calls[i].k + 1)
     \/ /\ srv' = srv
        /\ Inbox_addTasksToBoard_postFailed(i)
  /\ UNCHANGED <<page, onLoginCalls>>

NextInbox ==
  \/ Inbox_setShowAIConverter
  \/ Inbox_setInputText
  \/ Inbox_extractTasks
  \/ Inbox_setSelectedBoard
  \/ Inbox_addTasksToBoard
  \/ \E i \in DOMAIN calls : Inbox_get(i)
  \/ \E i \in DOMAIN calls : Inbox_fetchData_done(i)
  \/ \E i \in DOMAIN calls : Inbox_extractTasks_then(i)
  \/ \E i \in DOMAIN calls : Inbox_extractTasks_catch(i)
  \/ \E i \in DOMAIN calls : Inbox_addTasksToBoard_lists(i)
  \/ \E i \in DOMAIN calls : Inbox_addTasksToBoard_cards(i)
  \/ \E i \in DOMAIN calls : Inbox_addTasksToBoard_post(i)

(***************************************************************************)
(* Specifications                                                          *)
(***************************************************************************)
InitLogin ==
  /\ page = "Login"
  /\ ui = Login_useState
  /\ srv = srv0
  /\ calls = <<>>
  /\ onLoginCalls = <<>>

Dashboard_SrvInits ==
  { srv0,
    [ boards |-> << Board1 >>, lists |-> <<>>, cards |-> <<>>, nextId |-> 2 ] }

InitDashboard ==
  /\ page = "Dashboard"
  /\ ui = Dashboard_useState
  /\ srv \in Dashboard_SrvInits
  /\ calls = Dashboard_mount
  /\ onLoginCalls = <<>>

BoardView_SrvInits ==
  { [ boards |-> << Board1, Board2 >>, lists |-> <<>>, cards |-> <<>>,
      nextId |-> 5 ],
    [ boards |-> << Board1, Board2 >>, lists |-> << List3 >>,
      cards |-> << Card4 >>, nextId |-> 5 ] }

InitBoardView ==
  /\ page = "BoardView"
  /\ ui = BoardView_useState(1)
  /\ srv \in BoardView_SrvInits
  /\ calls = BoardView_mount(1)
  /\ onLoginCalls = <<>>

List5 == [id |-> 5, board_id |-> 1, title |-> <<" ", "a">>, position |-> 1]
Card6 ==
  [ id |-> 6, list_id |-> 5, board_id |-> 1, title |-> <<" ", "a">>,
    description |-> <<>>, position |-> 0 ]

\* Board 1 has two lists, board 2 none; the first list of board 1 holds one
\* card or none.
Inbox_SrvInits ==
  { [ boards |-> << Board1, Board2 >>, lists |-> << List3, List5 >>,
      cards |-> << Card6 >>, nextId |-> 7 ],
    [ boards |-> << Board1, Board2 >>, lists |-> << List3, List5 >>,
      cards |-> << Card4, Card6 >>, nextId |-> 7 ] }

InitInbox ==
  /\ page = "Inbox"
  /\ ui = Inbox_useState
  /\ srv \in Inbox_SrvInits
  /\ calls = Inbox_mount
  /\ onLoginCalls = <<>>

Init == InitLogin \/ InitDashboard \/ InitBoardView \/ InitInbox

Next == NextLogin \/ NextDashboard \/ NextBoardView \/ NextInbox

SpecLogin == InitLogin /\ [][NextLogin]_vars
SpecDashboard == InitDashboard /\ [][NextDashboard]_vars
SpecBoardView == InitBoardView /\ [][NextBoardView]_vars
SpecInbox == InitInbox /\ [][NextInbox]_vars
Spec == Init /\ [][Next]_vars

(***************************************************************************)
(* Properties of the Inbox commit (addTasksToBoard)                        *)
(***************************************************************************)
Commits == { i \in DOMAIN calls : calls[i].op = "addTasksToBoard" }

\* Both fetches of commit c succeeded: it entered the loop.
CommitFetched(c) == c.pc = "post" \/ (c.pc = "done" /\ c.res.st = "ok")

\* M: the cards of the fetched card set that are in the first list.
CommitM(c) ==
  Cardinality({ j \in DOMAIN c.existingCards :
                  c.existingCards[j].list_id = c.firstList.id })

\* The card POST for the n-th task of commit c goes to the first list and
\* carries the task (with the defaults) at position M + (n - 1).
CommitPostOk(c, n) ==
  LET r == Posts(c)[n]
      t == c.extractedTasks[n]
  IN /\ r.url = Url("/lists/{listId}/cards", c.firstList.id)
     /\ r.body.list_id = c.firstList.id
     /\ r.body.board_id = c.selectedBoard
     /\ r.body.position = CommitM(c) + (n - 1)
     /\ r.body.title = (IF t.title = <<>> THEN << "Untitled Task" >> ELSE t.title)

\* C1: a commit of N extracted tasks whose list and card fetches succeeded
\* issues exactly N card POSTs to the first list of the selected board, and
\* the k-th POST (k = 0..N-1, in task order) carries position M + k, M being
\* the number of cards of the fetched card set in that first list.  While the
\* loop runs, the POSTs issued so far are the first ones of that sequence.
C1_CommitPositions ==
  \A i \in Commits :
    CommitFetched(calls[i]) =>
      /\ calls[i].firstList = srvLists(calls[i].selectedBoard)[1]
      /\ Len(Posts(calls[i])) <= Len(calls[i].extractedTasks)
      /\ calls[i].pc = "done" => Len(Posts(calls[i])) = Len(calls[i].extractedTasks)
      /\ \A n \in 1..Len(Posts(calls[i])) : CommitPostOk(calls[i], n)

\* A commit of two tasks to a board whose first list held one card (and whose
\* other list held another) has run to its end.
C1_Witness ==
  \E i \in Commits :
    /\ calls[i].pc = "done" /\ calls[i].res.st = "ok"
    /\ Len(calls[i].extractedTasks) = 2
    /\ CommitM(calls[i]) = 1
    /\ Len(calls[i].existingCards) = 2
    /\ Posts(calls[i])[2].body.position = 2

\* C2: when the list fetch of a commit returns zero lists, the commit ends
\* having issued that one GET and nothing else (no card fetch, no card POST),
\* shows exactly one error toast and no other, and the step leaves the
\* extracted tasks, the selected board, the input text and the dialog flag
\* (and the backend) as they were.
C2_NoLists ==
  [][ \A i \in Commits :
        (calls[i].pc = "lists" /\ calls'[i].pc = "done"
           /\ Len(srvLists(calls[i].selectedBoard)) = 0
           /\ calls'[i].res.st # "fail")
        => /\ Len(calls'[i].reqs) = 1
           /\ calls'[i].reqs[1] =
                Req("GET", Url("/lists/{boardId}", calls[i].selectedBoard), null)
           /\ Len(calls'[i].toasts) = 1
           /\ Len(Errors(calls'[i])) = 1
           /\ ui'.extractedTasks = ui.extractedTasks
           /\ ui'.selectedBoard = ui.selectedBoard
           /\ ui'.inputText = ui.inputText
           /\ ui'.showAIConverter = ui.showAIConverter
           /\ Len(calls') = Len(calls)
           /\ srv' = srv ]_vars

\* A commit to the board without lists has ended while the dialog is open
\* with extracted tasks and that board selected.
C2_Witness ==
  \E i \in Commits :
    /\ calls[i].pc = "done" /\ calls[i].res.st = "nolists"
    /\ calls[i].selectedBoard = 2
    /\ ui.showAIConverter /\ ui.selectedBoard = 2
    /\ Len(ui.extractedTasks) = 2

FetchesBy(i) ==
  { j \in DOMAIN calls : calls[j].op = "fetchData" /\ calls[j].by = i }

\* C3: when a card POST of the commit loop is answered, with success or with
\* failure, the commit goes on: if tasks remain, the next task gets its POST;
\* after the last one the commit ends with one success toast carrying the
\* number of extracted tasks and no error toast, one POST per task, the dialog
\* closed, the input text, extracted tasks and selected board cleared, and
\* exactly one inbox refetch issued.
C3_LoopGoesOn ==
  [][ \A i \in Commits :
        (calls[i].pc = "post" /\ calls'[i] # calls[i])
        => IF calls[i].k < Len(calls[i].extractedTasks)
           THEN /\ calls'[i].pc = "post"
                /\ calls'[i].k = calls[i].k + 1
                /\ Len(Posts(calls'[i])) = Len(Posts(calls[i])) + 1
                /\ calls'[i].toasts = <<>>
           ELSE /\ calls'[i].pc = "done"
                /\ Len(Posts(calls'[i])) = Len(calls[i].extractedTasks)
                /\ calls'[i].toasts = << toast_added(Len(calls[i].extractedTasks)) >>
                /\ ui'.showAIConverter = FALSE
                /\ ui'.inputText = <<>>
                /\ ui'.extractedTasks = <<>>
                /\ ui'.selectedBoard = 0
                /\ Len(calls') = Len(calls) + 1
                /\ calls'[Len(calls')] = Inbox_fetchData_call(i) ]_vars

\* A commit of two tasks has ended after both of its POSTs failed, and its
\* refetch was issued.
C3_Witness ==
  \E i \in Commits :
    /\ calls[i].pc = "done" /\ calls[i].res.st = "ok"
    /\ Len(calls[i].extractedTasks) = 2
    /\ calls[i].failed = { 1, 2 }
    /\ Cardinality(FetchesBy(i)) = 1

(***************************************************************************)
(* Properties of the fetches and mutations of all pages                    *)
(***************************************************************************)
Mutations == { "createBoard", "createList", "handleCreateCard", "updateCard",
               "deleteCard" }

\* The data the page displays.
Displayed ==
  CASE page = "Dashboard" -> [boards |-> ui.boards]
    [] page = "BoardView" -> [board |-> ui.board, lists |-> ui.lists, cards |-> ui.cards]
    [] page = "Inbox" -> [ cards |-> ui.cards, boards |-> ui.boards,
                           extractedTasks |-> ui.extractedTasks ]
    [] OTHER -> [formData |-> ui.formData, isLogin |-> ui.isLogin]

\* What the backend would answer to the page's fetch now.
Stored ==
  CASE page = "Dashboard" -> [boards |-> srv.boards]
    [] page = "BoardView" -> [ board |-> srvBoard(ui.boardId),
                               lists |-> srvLists(ui.boardId),
                               cards |-> srvCards(ui.boardId) ]
    [] OTHER -> [none |-> TRUE]

\* Every invocation has ended, none of them with a failed request, one of
\* them was a mutation the backend accepted, and the route never changed.
Settled ==
  /\ page \in { "Dashboard", "BoardView" }
  /\ AllDone
  /\ \A i \in DOMAIN calls : calls[i].res.st \in { "ok", "none" }
  /\ \E i \in DOMAIN calls : calls[i].op \in Mutations /\ calls[i].res.st = "ok"
  /\ page = "BoardView" => \A i \in DOMAIN calls : calls[i].boardId = ui.boardId

\* C4: once every request has completed after a successful mutation (all of
\* them with success), the page's local state (boards, or board, lists and
\* cards) equals what the backend stores, which is what the latest re-fetch
\* was answered: no data from before a mutation remains, whatever the order
\* in which the answers arrived.
C4_LocalStateIsBackendState == Settled => Displayed = Stored

\* The invocations the step appends.
Appended == { i \in DOMAIN calls' : i > Len(calls) }

\* C5: when the user declines the prompt of deleteCard, the invocation ends
\* at once without any request (no DELETE, no fetch) and without any toast,
\* and the step changes neither the component state (board, lists, cards,
\* selected card, both dialog flags and the rest) nor the backend.
C5_DeclinedDelete ==
  [][ \A i \in Appended :
        (calls'[i].op = "deleteCard" /\ ~calls'[i].confirmed)
        => /\ calls'[i].pc = "done"
           /\ calls'[i].reqs = <<>>
           /\ calls'[i].toasts = <<>>
           /\ Len(calls') = Len(calls) + 1
           /\ \A j \in DOMAIN calls : calls'[j] = calls[j]
           /\ ui' = ui
           /\ srv' = srv ]_vars

\* The user declined the deletion of a displayed card: the card dialog is
\* still open on it and the backend still stores it.
C5_Witness ==
  /\ page = "BoardView"
  /\ \E i \in DOMAIN calls : calls[i].op = "deleteCard" /\ ~calls[i].confirmed
  /\ \A i \in DOMAIN calls : calls[i].op = "deleteCard" => ~calls[i].confirmed
  /\ ui.showCardDialog /\ ui.selectedCard # null
  /\ srvHasCard(ui.selectedCard.id) /\ Len(ui.cards) = 1

\* The joint fetch of invocation i is rejected in this step.
JoinFails(i) ==
  /\ i \in DOMAIN calls
  /\ calls[i].pc = "fetch"
  /\ joinRejected(calls[i].res)
  /\ calls'[i].pc = "done"

\* C6: when one request of a joint fetch fails (board, lists and cards of
\* BoardView; inbox cards and boards of Inbox), the fetch shows exactly one
\* error toast and none of the data the other requests returned is applied:
\* BoardView keeps its board, lists and cards, Inbox keeps its boards and its
\* cards do not become the returned cards (they become empty).
C6_JointFetchFails ==
  [][ \A i \in DOMAIN calls :
        JoinFails(i)
        => /\ Len(Errors(calls'[i])) = Len(Errors(calls[i])) + 1
           /\ page = "BoardView" =>
                /\ ui'.board = ui.board
                /\ ui'.lists = ui.lists
                /\ ui'.cards = ui.cards
           /\ page = "Inbox" =>
                /\ ui'.boards = ui.boards
                /\ ui'.cards = <<>>
                /\ calls[i].res.cards.st = "ok" => ui'.cards # calls[i].res.cards.data ]_vars

\* After a list was created, the refetch failed: BoardView shows one error
\* toast for it and still displays the lists from before.
C6_Witness ==
  /\ page = "BoardView"
  /\ ~ui.loading
  /\ ui.lists # srvLists(ui.boardId)
  /\ \E i \in DOMAIN calls :
       /\ calls[i].op = "fetchBoardData" /\ calls[i].by > 0
       /\ calls[i].pc = "done" /\ calls[i].res.st = "fail"
       /\ Len(Errors(calls[i])) = 1
       /\ calls[calls[i].by].op = "createList"

Submits == { i \in DOMAIN calls : calls[i].op = "handleSubmit" }

\* C7: a submission issues exactly one request, a POST of the form data to
\* the login endpoint in login mode and to the register endpoint in
\* registration mode; when the request succeeds, onLogin is invoked exactly
\* once, with the token and the user of that response; no other step invokes
\* onLogin.
C7_SubmitOnce ==
  [][ /\ \A i \in Appended :
           calls'[i].op = "handleSubmit"
           => /\ calls'[i].reqs =
                   << Req("POST",
                          Url(IF ui.isLogin THEN "/auth/login" ELSE "/auth/register", 0),
                          ui.formData) >>
              /\ onLoginCalls' = onLoginCalls
      /\ \A i \in Submits :
           (calls[i].pc = "post" /\ calls'[i].pc = "done")
           => /\ Len(calls'[i].reqs) = 1
              /\ onLoginCalls' =
                   IF calls'[i].res.st = "ok"
                   THEN Append(onLoginCalls, [ call |-> i,
                                               token |-> calls'[i].res.token,
                                               user |-> calls'[i].res.user ])
                   ELSE onLoginCalls
      /\ (\A i \in DOMAIN calls : calls'[i].pc = calls[i].pc)
           => onLoginCalls' = onLoginCalls ]_vars

\* A registration succeeded and onLogin was invoked for it.
C7_Witness ==
  \E i \in Submits :
    /\ ~calls[i].isLogin
    /\ calls[i].pc = "done" /\ calls[i].res.st = "ok"
    /\ calls[i].reqs[1].url = Url("/auth/register", 0)
    /\ \E n \in DOMAIN onLoginCalls :
         onLoginCalls[n] = [call |-> i, token |-> "t2", user |-> "u1"]

\* The text is empty or consists of white space only.
Blank(t) == \A k \in DOMAIN t : t[k] = " "

\* C8: a createBoard submission with an empty or white-space-only title ends
\* at once without any request, shows one error toast, and leaves the dialog
\* flag, the form data and the board list (and the backend) as they were.
C8_BlankTitle ==
  [][ \A i \in Appended :
        (calls'[i].op = "createBoard" /\ Blank(ui.newBoardData.title))
        => /\ calls'[i].pc = "done"
           /\ calls'[i].reqs = <<>>
           /\ calls'[i].toasts = << toast_error("Board title is required") >>
           /\ Len(calls') = Len(calls) + 1
           /\ ui'.showNewBoard = ui.showNewBoard
           /\ ui'.newBoardData = ui.newBoardData
           /\ ui'.boards = ui.boards
           /\ srv' = srv ]_vars

\* A board with a title of one space was submitted: the dialog is still open
\* with that title.
C8_Witness ==
  /\ page = "Dashboard"
  /\ ui.showNewBoard
  /\ ui.newBoardData.title = << " " >>
  /\ ui.boards # <<>>
  /\ \E i \in DOMAIN calls :
       /\ calls[i].op = "createBoard" /\ calls[i].res.st = "none"
       /\ i = Len(calls)

\* Invocation i ends in this step on a failure path.
Fails(i) ==
  /\ calls'[i].pc = "done"
  /\ calls'[i].res.st \in { "fail", "nolists" }
  /\ i \in DOMAIN calls => calls[i].pc # "done"

\* C9 as stated: every failure path leaves the displayed data as it was,
\* a failed inbox fetch included.
C9_FailureKeepsDisplayed ==
  [][ \A i \in DOMAIN calls' : Fails(i) => Displayed' = Displayed ]_vars

\* C9, amended: every failure path leaves the displayed data as it was,
\* except a failed inbox fetch, which empties the displayed inbox cards and
\* leaves the displayed boards (and extracted tasks) as they were.
C9_FailureKeepsDisplayedButInboxCards ==
  [][ \A i \in DOMAIN calls' :
        Fails(i)
        => IF page = "Inbox" /\ calls'[i].op = "fetchData"
           THEN Displayed' = [Displayed EXCEPT !.cards = <<>>]
           ELSE Displayed' = Displayed ]_vars

\* The inbox refetch after a commit failed: the boards loaded at mount are
\* still displayed, the cards loaded with them are gone.
C9_Witness ==
  /\ page = "Inbox"
  /\ ui.boards # <<>>
  /\ ui.cards = <<>>
  /\ \E i \in DOMAIN calls :
       /\ calls[i].op = "fetchData" /\ calls[i].by > 0
       /\ calls[i].pc = "done" /\ calls[i].res.st = "fail"

BoardFetches == { i \in DOMAIN calls : calls[i].op = "fetchBoards" }

\* C10 as stated: whenever a board fetch of Dashboard fails, the board list
\* is empty afterwards and one error toast is shown.
C10_FailedFetchEmptiesBoards ==
  [][ \A i \in BoardFetches :
        (calls[i].pc = "get" /\ calls'[i].pc = "done" /\ calls'[i].res.st = "fail")
        => /\ ui'.boards = <<>>
           /\ calls'[i].toasts = << toast_error("Failed to load boards") >> ]_vars

\* C10, amended: whenever a board fetch of Dashboard fails, at mount or after
\* a creation, the board list is afterwards the one displayed before (empty
\* when no fetch had succeeded yet) and one error toast is shown.
C10_FailedFetchKeepsBoards ==
  [][ \A i \in BoardFetches :
        (calls[i].pc = "get" /\ calls'[i].pc = "done" /\ calls'[i].res.st = "fail")
        => /\ ui'.boards = ui.boards
           /\ ui.loading /\ (\A j \in BoardFetches : calls[j].pc # "done")
                => ui'.boards = <<>>
           /\ calls'[i].toasts = << toast_error("Failed to load boards") >> ]_vars

\* The refetch after a creation failed: the boards loaded at mount are still
\* displayed, without the new one.
C10_Witness ==
  /\ page = "Dashboard"
  /\ ui.boards # <<>>
  /\ ui.boards # srv.boards
  /\ \E i \in BoardFetches :
       /\ calls[i].by > 0
       /\ calls[i].pc = "done" /\ calls[i].res.st = "fail"
       /\ Len(Errors(calls[i])) = 1

(***************************************************************************)
(* Properties of extractTasks                                              *)
(***************************************************************************)
Extracts == { i \in DOMAIN calls : calls[i].op = "extractTasks" }

\* C11: extractTasks leaves the extracted task set as it was when it starts,
\* when the input is blank (it then issues no request and shows one error
\* toast) and when the extraction request fails (it then shows the one
\* generic error toast and issues nothing more); the set is replaced only
\* when the request succeeds, by the tasks array of the response, unaltered.
C11_ExtractTasks ==
  [][ /\ \A i \in Appended :
           calls'[i].op = "extractTasks"
           => /\ ui'.extractedTasks = ui.extractedTasks
              /\ IF Blank(ui.inputText)
                 THEN /\ calls'[i].pc = "done"
                      /\ calls'[i].reqs = <<>>
                      /\ calls'[i].toasts = << toast_error("Please enter some text") >>
                 ELSE /\ calls'[i].pc = "post"
                      /\ Len(calls'[i].reqs) = 1
      /\ \A i \in Extracts :
           (calls[i].pc = "post" /\ calls'[i].pc = "done")
           => /\ Len(calls'[i].reqs) = 1
              /\ Len(calls') = Len(calls)
              /\ IF calls'[i].res.st = "ok"
                 THEN calls'[i].res.tasks.isArray
                        => ui'.extractedTasks = calls'[i].res.tasks.value
                 ELSE /\ ui'.extractedTasks = ui.extractedTasks
                      /\ calls'[i].toasts = << toast_error("Failed to extract tasks") >> ]_vars

\* A second extraction failed after a first one had delivered two tasks, one
\* of them without a title: the two tasks are still there.
C11_Witness ==
  \E i, j \in Extracts :
    /\ j < i
    /\ calls[j].pc = "done" /\ calls[j].res.st = "ok"
    /\ calls[i].pc = "done" /\ calls[i].res.st = "fail"
    /\ Len(ui.extractedTasks) = 2
    /\ ui.extractedTasks = calls[j].res.tasks.value
    /\ ui.extractedTasks[2].title = <<>>

(***************************************************************************)
(* Properties of handleCreateCard                                          *)
(***************************************************************************)
CardCreations == { i \in DOMAIN calls : calls[i].op = "handleCreateCard" }

\* The number of displayed cards of the list.
CardsIn(listId) ==
  Cardinality({ k \in DOMAIN ui.cards : ui.cards[k].list_id = listId })

\* C12: handleCreateCard with a blank title issues no request; with another
\* title it issues one POST to the target list, carrying the title, an empty
\* description, the target list, the current board id and as position the
\* number of displayed cards of the target list at the time of the call; the
\* three GETs of the re-fetch are issued when that POST has succeeded, and
\* not when it failed or while it is pending.
C12_CreateCardRequest ==
  [][ /\ \A i \in Appended :
           calls'[i].op = "handleCreateCard"
           => IF Blank(ui.newCardData.title)
              THEN calls'[i].pc = "done" /\ calls'[i].reqs = <<>>
              ELSE /\ calls'[i].pc = "post"
                   /\ calls'[i].reqs =
                        << Req("POST",
                               Url("/lists/{listId}/cards", ui.newCardData.listId),
                               [ title |-> ui.newCardData.title,
                                 description |-> <<>>,
                                 list_id |-> ui.newCardData.listId,
                                 board_id |-> ui.boardId,
                                 position |-> CardsIn(ui.newCardData.listId) ]) >>
      /\ \A i \in CardCreations :
           /\ calls[i].pc = "post" => Len(calls[i].reqs) = 1
           /\ (calls[i].pc = "post" /\ calls'[i].pc = "done")
                => Len(calls'[i].reqs) = 1 /\ Len(calls') = Len(calls)
           /\ (calls[i].pc = "post" /\ calls'[i].pc = "fetch")
                => /\ calls'[i].reqs =
                        calls[i].reqs \o BoardView_fetchBoardData_reqs(calls[i].boardId)
                   /\ srv'.cards = Append(srv.cards, srvNewCard(calls[i].reqs[1].body))
           /\ calls[i].pc = "fetch" => Len(calls'[i].reqs) = 4 ]_vars

\* After a second list was created and displayed, a card was posted to it at
\* position 0 while the first list displays one card, and the re-fetch was
\* issued.
C12_Witness ==
  \E i \in CardCreations :
    /\ calls[i].pc = "fetch"
    /\ Len(ui.cards) = 1
    /\ calls[i].reqs[1].body.list_id # ui.cards[1].list_id
    /\ calls[i].reqs[1].body.position = 0
    /\ Len(Gets(calls[i])) = 3

(***************************************************************************)
(* Properties of the failure paths of Login and Dashboard                  *)
(***************************************************************************)
OnLoginsOf(i) == { n \in DOMAIN onLoginCalls : onLoginCalls[n].call = i }

\* C13: when the request of a submission fails, onLogin is not invoked for
\* it, exactly one error toast is shown (the detail of the response when it
\* has one, "An error occurred" otherwise), the submission issues no further
\* request and starts no other invocation, and loading is false again.
C13_SubmitFails ==
  [][ \A i \in Submits :
        (calls[i].pc = "post" /\ calls'[i].pc = "done" /\ calls'[i].res.st = "fail")
        => /\ onLoginCalls' = onLoginCalls
           /\ OnLoginsOf(i) = {}
           /\ calls'[i].toasts =
                << toast_error(IF calls'[i].res.detail = "none"
                               THEN "An error occurred"
                               ELSE calls'[i].res.detail) >>
           /\ Len(calls'[i].reqs) = 1
           /\ Len(calls') = Len(calls)
           /\ ui.loading /\ ~ui'.loading ]_vars

\* A login failed with a detail from the backend: no onLogin, loading false.
C13_Witness ==
  \E i \in Submits :
    /\ calls[i].pc = "done" /\ calls[i].res.st = "fail"
    /\ calls[i].res.detail = "Invalid credentials"
    /\ calls[i].toasts = << toast_error("Invalid credentials") >>
    /\ onLoginCalls = <<>>
    /\ ~ui.loading

BoardCreations == { i \in DOMAIN calls : calls[i].op = "createBoard" }

\* C14: when the POST of createBoard fails, the dialog flag and the form data
\* stay as they are, no re-fetch is issued and one error toast is shown; when
\* it succeeds, the dialog is closed, the form is reset and exactly one
\* fetchBoards, with its one GET of the board set, is issued, while the
\* displayed boards stay as they are until a GET is answered.
C14_CreateBoardOutcome ==
  [][ \A i \in BoardCreations :
        (calls[i].pc = "post" /\ calls'[i].pc = "done")
        => /\ Len(calls'[i].reqs) = 1
           /\ ui'.boards = ui.boards
           /\ IF calls'[i].res.st = "fail"
              THEN /\ ui'.showNewBoard = ui.showNewBoard
                   /\ ui'.newBoardData = ui.newBoardData
                   /\ Len(calls') = Len(calls)
                   /\ calls'[i].toasts = << toast_error("Failed to create board") >>
                   /\ srv' = srv
              ELSE /\ ui'.showNewBoard = FALSE
                   /\ ui'.newBoardData = [title |-> <<>>, description |-> <<>>]
                   /\ Len(calls') = Len(calls) + 1
                   /\ calls'[Len(calls')].op = "fetchBoards"
                   /\ calls'[Len(calls')].by = i
                   /\ calls'[Len(calls')].pc = "get"
                   /\ calls'[Len(calls')].reqs = << Req("GET", Url("/boards", 0), null) >>
                   /\ Len(Errors(calls'[i])) = 0 ]_vars

\* After one creation succeeded and its re-fetch was issued, a second one
\* failed: the dialog is open with the title typed for it.
C14_Witness ==
  \E i, j \in BoardCreations :
    /\ calls[i].pc = "done" /\ calls[i].res.st = "ok"
    /\ \E f \in BoardFetches : calls[f].by = i
    /\ calls[j].pc = "done" /\ calls[j].res.st = "fail"
    /\ Cardinality(BoardFetches) = 2
    /\ ui.showNewBoard
    /\ ui.newBoardData.title = << " ", "a" >>

(***************************************************************************)
(* Properties of the order and the races of requests                       *)
(***************************************************************************)
\* The requests of commit c that were issued and are not answered yet.
Unanswered(c) == Len(c.reqs) - c.answered

\* C15: within one commit at most one request is unanswered at any time, so
\* each request is issued only after the one before it was answered (with
\* success or with failure); the requests are, in this order, the lists GET,
\* the cards GET and the card POSTs in task order; nothing is unanswered
\* when the commit has ended.
C15_CommitSequential ==
  \A i \in Commits :
    /\ Unanswered(calls[i]) \in { 0, 1 }
    /\ Unanswered(calls[i]) = 1 <=> calls[i].pc # "done"
    /\ \A n \in DOMAIN calls[i].reqs :
         /\ n = 1 => calls[i].reqs[n].url.path = "/lists/{boardId}"
         /\ n = 2 => calls[i].reqs[n].url.path = "/cards/{boardId}"
         /\ n > 2 => /\ calls[i].reqs[n].method = "POST"
                     /\ calls[i].reqs[n].body.position =
                          calls[i].reqs[3].body.position + (n - 3)

\* The second card POST of a commit is pending: both GETs and the first POST
\* were answered.
C15_Witness ==
  \E i \in Commits :
    /\ calls[i].pc = "post"
    /\ Len(calls[i].reqs) = 4
    /\ calls[i].answered = 3
    /\ calls[i].k = 2

\* The creations of a card on BoardView whose POST is pending or whose
\* re-fetch is not applied yet.
PendingCardCreations ==
  { i \in CardCreations : calls[i].pc \in { "post", "fetch" } }

\* C16: positions are counts the client reads before it posts.  On
\* BoardView, a handleCreateCard issued for a list while an earlier one for
\* that list is pending and not yet reflected in the displayed cards carries
\* the position of the earlier one.  On Inbox, the commit reads its start
\* count once: two commits that read the same count for the same first list
\* carry the same positions, POST by POST.
C16_PositionsAreClientCounts ==
  [][ /\ \A j \in Appended : \A i \in PendingCardCreations :
           ( /\ calls'[j].op = "handleCreateCard" /\ calls'[j].pc = "post"
             /\ calls[i].reqs[1].body.list_id = ui.newCardData.listId
             /\ calls[i].reqs[1].body.position = CardsIn(ui.newCardData.listId) )
           => calls'[j].reqs[1].body.position = calls[i].reqs[1].body.position
      /\ \A i, j \in Commits :
           ( /\ CommitFetched(calls'[i]) /\ CommitFetched(calls'[j])
             /\ calls'[i].firstList = calls'[j].firstList
             /\ CommitM(calls'[i]) = CommitM(calls'[j]) )
           => \A n \in DOMAIN Posts(calls'[i]) \cap DOMAIN Posts(calls'[j]) :
                Posts(calls'[i])[n].body.position = Posts(calls'[j])[n].body.position
    ]_vars

\* The backend stores two cards of one list at the same position.
C16_Witness ==
  \E a, b \in DOMAIN srv.cards :
    /\ a < b
    /\ srv.cards[a].list_id = srv.cards[b].list_id
    /\ srv.cards[a].position = srv.cards[b].position

\* Every invocation on BoardView has ended, none with a failed request.
BoardViewSettled ==
  /\ page = "BoardView"
  /\ AllDone
  /\ \A i \in DOMAIN calls : calls[i].res.st \in { "ok", "none" }

\* C17: once every fetch of BoardView has completed (all with success), the
\* displayed board, lists and cards are those of the current board id: no
\* answer to a fetch for an earlier board id, and no older answer arriving
\* late, has replaced them.
C17_StateIsOfCurrentBoard ==
  BoardViewSettled
  => /\ ui.board # null
     /\ ui.board.id = ui.boardId
     /\ \A k \in DOMAIN ui.lists : ui.lists[k].board_id = ui.boardId
     /\ \A k \in DOMAIN ui.cards : ui.cards[k].board_id = ui.boardId

\* C18: for one extracted task set, each task is posted at most once: when
\* only one extraction was made, no two commits have both issued card POSTs.
C18_TasksPostedOnce ==
  Cardinality(Extracts) <= 1
  => \A i, j \in Commits :
       i # j => Posts(calls[i]) = <<>> \/ Posts(calls[j]) = <<>>

\* C19: a commit without a selected board ends at once with no request (and
\* one error toast); a commit whose lists GET or cards GET fails ends with no
\* card POST, with the one error toast "Failed to add tasks" and no inbox
\* re-fetch; in all three cases the extracted tasks, the selected board, the
\* input text and the dialog flag (and the backend) stay as they are.
C19_CommitFails ==
  [][ /\ \A i \in Appended :
           (calls'[i].op = "addTasksToBoard" /\ ui.selectedBoard = 0)
           => /\ calls'[i].pc = "done"
              /\ calls'[i].reqs = <<>>
              /\ calls'[i].toasts = << toast_error("Please select a board") >>
              /\ Len(calls') = Len(calls) + 1
              /\ ui' = ui
              /\ srv' = srv
      /\ \A i \in Commits :
           ( /\ calls[i].pc \in { "lists", "cards" }
             /\ calls'[i].pc = "done" /\ calls'[i].res.st = "fail" )
           => /\ calls'[i].reqs = calls[i].reqs
              /\ Posts(calls'[i]) = <<>>
              /\ calls'[i].toasts = << toast_error("Failed to add tasks") >>
              /\ Len(calls') = Len(calls)
              /\ ui'.extractedTasks = ui.extractedTasks
              /\ ui'.selectedBoard = ui.selectedBoard
              /\ ui'.inputText = ui.inputText
              /\ ui'.showAIConverter = ui.showAIConverter
              /\ srv' = srv ]_vars

\* A commit failed at its cards GET and another one found no board selected:
\* the dialog is open with the two extracted tasks.
C19_Witness ==
  \E i, j \in Commits :
    /\ calls[i].pc = "done" /\ calls[i].res.st = "fail"
    /\ Len(calls[i].reqs) = 2
    /\ calls[j].pc = "done" /\ calls[j].res.st = "none"
    /\ FetchesBy(i) = {} /\ FetchesBy(j) = {}
    /\ ui.showAIConverter
    /\ Len(ui.extractedTasks) = 2

====
